---- MODULE Spec2Model ----
(***************************************************************************)
(* A model of mini-server-mock: the ApiController router (route matching,  *)
(* dispatch, best-effort state persistence) and the MiniServer dispatcher  *)
(* with its static file fallback.                                          *)
(*                                                                         *)
(* JavaScript strings that the code splits or searches (URLs, paths, file  *)
(* contents) are sequences of one-character strings, so that split('/'),   *)
(* split('?'), includes('api') and replace() are computed, not assumed.    *)
(***************************************************************************)
EXTENDS Integers, Sequences, FiniteSets, TLC

\* JavaScript's undefined (an absent option, property or return value).
undefined == "undefined"

(***************************************************************************)
(* Bounds of the model.                                                    *)
(***************************************************************************)
\* Requests a route handles in one behaviour (requests no route matches
\* leave the controllers as they are, and are not counted).
MaxHandled == 2
\* Path segments of the patterns and requests drawn for the route matcher.
MaxSegs == 2
\* ApiController instances constructed in one behaviour.
MaxControllers == 2
\* addRoute calls made after the construction of the controllers.
MaxAddRoutes == 1
\* The count of the state a previous run of the server left in the file.
SavedCount == 9

(***************************************************************************)
(* String primitives of JavaScript, on sequences of characters. They are   *)
(* functions, so that an argument is a value when the body is evaluated.   *)
(***************************************************************************)
Str == Seq(STRING)

\* The least i >= from with s[i] = ch, or 0: String.prototype.indexOf.
IndexFrom[s \in Str, ch \in STRING, from \in Nat] ==
    IF from > Len(s) THEN 0
    ELSE IF s[from] = ch THEN from
    ELSE IndexFrom[s, ch, from + 1]

\* s.split(sep) for a one-character separator: always at least one part.
Split[s \in Str, sep \in STRING] ==
    LET i == IndexFrom[s, sep, 1]
    IN  IF i = 0 THEN <<s>>
        ELSE <<SubSeq(s, 1, i - 1)>> \o Split[SubSeq(s, i + 1, Len(s)), sep]

\* part.startsWith(prefix)
StartsWith(s, prefix) ==
    \E str \in {s} :
        /\ Len(str) >= Len(prefix)
        /\ SubSeq(str, 1, Len(prefix)) = prefix

\* s.endsWith(suffix)
EndsWith(s, suffix) ==
    \E str \in {s} :
        /\ Len(str) >= Len(suffix)
        /\ SubSeq(str, Len(str) - Len(suffix) + 1, Len(str)) = suffix

\* s.includes(sub)
Includes(s, sub) ==
    \E str \in {s} :
        \E i \in 1..(Len(str) - Len(sub) + 1) :
            SubSeq(str, i, i + Len(sub) - 1) = sub

\* The least i >= from at which sub occurs in s, or 0.
FindSub[s \in Str, sub \in Str, from \in Nat] ==
    IF from + Len(sub) - 1 > Len(s) THEN 0
    ELSE IF SubSeq(s, from, from + Len(sub) - 1) = sub THEN from
    ELSE FindSub[s, sub, from + 1]

\* s.replace(sub, by) with a string pattern: the first occurrence only.
ReplaceFirst[s \in Str, sub \in Str, by \in Str] ==
    LET i == FindSub[s, sub, 1]
    IN  IF i = 0 THEN s
        ELSE SubSeq(s, 1, i - 1) \o by \o SubSeq(s, i + Len(sub), Len(s))

\* parts.join(sep)
JoinWith[parts \in Seq(Str), sep \in Str] ==
    IF Len(parts) = 0 THEN <<>>
    ELSE IF Len(parts) = 1 THEN parts[1]
    ELSE parts[1] \o sep \o JoinWith[Tail(parts), sep]

\* method.toUpperCase() on the method names the model uses.
ToUpperCase(m) ==
    CASE m = "get" -> "GET"
      [] m = "post" -> "POST"
      [] OTHER -> m

(***************************************************************************)
(* ApiController's static functions.                                       *)
(***************************************************************************)
\* isRouteMatch comparing the two methods as written, without toUpperCase.
isRouteMatch_caseSensitive(route, request) ==
    LET pathParts == Split[route.url, "/"]
        requestParts == Split[request.url, "/"]
    IN  IF Len(pathParts) # Len(requestParts) THEN FALSE
        ELSE IF /\ route.method # undefined
                /\ request.method # undefined
                /\ route.method # request.method
        THEN FALSE
        ELSE \A i \in 1..Len(pathParts) :
                \/ StartsWith(pathParts[i], <<":">>)
                \/ pathParts[i] = requestParts[i]

\* ApiController.isRouteMatch(route, request)
isRouteMatch(route, request) ==
    LET pathParts == Split[route.url, "/"]
        requestParts == Split[request.url, "/"]
    IN  IF Len(pathParts) # Len(requestParts) THEN FALSE
        ELSE IF /\ route.method # undefined
                /\ request.method # undefined
                /\ ToUpperCase(route.method) # ToUpperCase(request.method)
        THEN FALSE
        ELSE \A i \in 1..Len(pathParts) :
                \/ StartsWith(pathParts[i], <<":">>)
                \/ pathParts[i] = requestParts[i]

\* getVariablesFromPath splitting the request URL as given, query included.
getVariablesFromPath_keepQuery(path, request) ==
    LET requestWithoutQuery == request.url
        pathParts == Split[path, "/"]
        requestParts == Split[requestWithoutQuery, "/"]
        IsVar(i) == StartsWith(pathParts[i], <<":">>)
        Name(i) == SubSeq(pathParts[i], 2, Len(pathParts[i]))
        Value(i) == IF i <= Len(requestParts) THEN requestParts[i] ELSE <<>>
    IN  { <<Name(i), Value(i)>> :
            i \in { j \in 1..Len(pathParts) :
                      /\ IsVar(j)
                      /\ \A k \in (j + 1)..Len(pathParts) :
                            ~(IsVar(k) /\ Name(k) = Name(j)) } }

\* ApiController.getVariablesFromPath(path, request): the mapping as a set of
\* <<name, value>> pairs, built in the order of the pattern's segments (a
\* later segment of the same name overwrites an earlier one).
getVariablesFromPath(path, request) ==
    LET requestWithoutQuery == Split[request.url, "?"][1]
        pathParts == Split[path, "/"]
        requestParts == Split[requestWithoutQuery, "/"]
        IsVar(i) == StartsWith(pathParts[i], <<":">>)
        Name(i) == SubSeq(pathParts[i], 2, Len(pathParts[i]))
        Value(i) == IF i <= Len(requestParts) THEN requestParts[i] ELSE <<>>
    IN  { <<Name(i), Value(i)>> :
            i \in { j \in 1..Len(pathParts) :
                      /\ IsVar(j)
                      /\ \A k \in (j + 1)..Len(pathParts) :
                            ~(IsVar(k) /\ Name(k) = Name(j)) } }

\* ApiController.createRoute({url, method, data, status}): a canned route.
\* A status of 0 stands for an absent one (status || 200 treats both alike).
createRoute(url, method, data, status) ==
    [ url |-> url,
      method |-> IF method = undefined THEN "GET" ELSE method,
      action |-> [ kind |-> "canned", owner |-> 0,
                   status |-> IF status = 0 THEN 200 ELSE status,
                   data |-> IF data = undefined THEN <<"{", "}">> ELSE data ] ]

(***************************************************************************)
(* Numbers and JSON. A state object is modelled by its count property:     *)
(* tag "absent" is an object without it ({}), "number" holds count, "NaN"  *)
(* and "null" are the values arithmetic and JSON can turn it into.         *)
(***************************************************************************)
Obj(tag, n) == [tag |-> tag, count |-> n]

EmptyObj == Obj("absent", 0)

Digit(d) ==
    CASE d = 0 -> "0" [] d = 1 -> "1" [] d = 2 -> "2" [] d = 3 -> "3"
      [] d = 4 -> "4" [] d = 5 -> "5" [] d = 6 -> "6" [] d = 7 -> "7"
      [] d = 8 -> "8" [] d = 9 -> "9"

DigitChars == {"0", "1", "2", "3", "4", "5", "6", "7", "8", "9"}

DigitValue(ch) == CHOOSE d \in 0..9 : Digit(d) = ch

RECURSIVE NumToChars(_)
\* String(n) for a natural number n.
NumToChars(n) ==
    IF n < 10 THEN <<Digit(n)>>
    ELSE NumToChars(n \div 10) \o <<Digit(n % 10)>>

RECURSIVE CharsToNum(_)
CharsToNum(s) ==
    IF Len(s) = 0 THEN 0
    ELSE 10 * CharsToNum(SubSeq(s, 1, Len(s) - 1)) + DigitValue(s[Len(s)])

\* count + 1 as JavaScript evaluates it: undefined + 1 and NaN + 1 are NaN,
\* null + 1 is 1.
PlusOne(o) ==
    CASE o.tag = "number" -> Obj("number", o.count + 1)
      [] o.tag = "null" -> Obj("number", 1)
      [] OTHER -> Obj("NaN", 0)

\* The text a template literal gives the count.
CountText(o) ==
    CASE o.tag = "number" -> NumToChars(o.count)
      [] o.tag = "null" -> <<"n", "u", "l", "l">>
      [] o.tag = "NaN" -> <<"N", "a", "N">>
      [] OTHER -> <<"u", "n", "d", "e", "f", "i", "n", "e", "d">>

CountKey == <<"\"", "c", "o", "u", "n", "t", "\"", ":">>

\* JSON.stringify(state, null, 2): NaN is written as null.
JSONStringify(o) ==
    IF o.tag = "absent" THEN <<"{", "}">>
    ELSE <<"{", "\n", " ", " ">> \o CountKey \o <<" ">>
         \o (IF o.tag = "number" THEN NumToChars(o.count)
             ELSE <<"n", "u", "l", "l">>)
         \o <<"\n", "}">>

\* The text without the white space JSON allows between tokens.
Compact(s) == SelectSeq(s, LAMBDA ch : ch \notin {" ", "\n"})

\* JSON.parse(text) on the texts the model holds: [ok, value]; ok is FALSE
\* where JSON.parse throws a SyntaxError.
JSONParse(text) ==
    LET t == Compact(text)
        Bad == [ok |-> FALSE, value |-> EmptyObj]
        mid == SubSeq(t, Len(CountKey) + 2, Len(t) - 1)
    IN  IF t = <<"{", "}">> THEN [ok |-> TRUE, value |-> EmptyObj]
        ELSE IF ~(/\ Len(t) >= Len(CountKey) + 3
                  /\ t[1] = "{"
                  /\ SubSeq(t, 2, Len(CountKey) + 1) = CountKey
                  /\ t[Len(t)] = "}")
        THEN Bad
        ELSE IF mid = <<"n", "u", "l", "l">>
        THEN [ok |-> TRUE, value |-> Obj("null", 0)]
        ELSE IF /\ \A i \in 1..Len(mid) : mid[i] \in DigitChars
                /\ (Len(mid) > 1 => mid[1] # "0")
        THEN [ok |-> TRUE, value |-> Obj("number", CharsToNum(mid))]
        ELSE Bad

(***************************************************************************)
(* Paths and the disk the static resolver looks at.                        *)
(***************************************************************************)
\* The segments of a normalized path: empty and "." segments dropped, ".."
\* resolved against the segment before it.
NormSegs[segs \in Seq(Str), acc \in Seq(Str), abs \in BOOLEAN] ==
    IF Len(segs) = 0 THEN acc
    ELSE LET s == Head(segs)
             rest == Tail(segs)
         IN  IF s = <<>> \/ s = <<".">> THEN NormSegs[rest, acc, abs]
             ELSE IF s = <<".", ".">>
             THEN IF Len(acc) > 0 /\ acc[Len(acc)] # <<".", ".">>
                  THEN NormSegs[rest, SubSeq(acc, 1, Len(acc) - 1), abs]
                  ELSE IF abs THEN NormSegs[rest, acc, abs]
                  ELSE NormSegs[rest, Append(acc, s), abs]
             ELSE NormSegs[rest, Append(acc, s), abs]

\* path.normalize(p) of a non-empty path: a trailing slash is kept.
Normalize[p \in Str] ==
    LET abs == p[1] = "/"
        trailing == p[Len(p)] = "/"
        framed[body \in Str] ==
            IF Len(body) = 0 THEN (IF abs THEN <<"/">> ELSE <<".">>)
            ELSE (IF abs THEN <<"/">> ELSE <<>>) \o body
                 \o (IF trailing THEN <<"/">> ELSE <<>>)
    IN  framed[JoinWith[NormSegs[Split[p, "/"], <<>>, abs], <<"/">>]]

\* path.join(a, b): the non-empty arguments joined by "/" and normalized.
joinPath[a \in Str, b \in Str] ==
    IF Len(b) = 0 THEN Normalize[a]
    ELSE IF Len(a) = 0 THEN Normalize[b]
    ELSE Normalize[a \o <<"/">> \o b]

\* path.extname(p): from the last "." of the last segment, if it is not the
\* segment's first character.
extname[p \in Str] ==
    LET parts == Split[p, "/"]
        base == parts[Len(parts)]
        dots == {i \in 1..Len(base) : base[i] = "."}
        last == IF dots = {} THEN 0 ELSE CHOOSE i \in dots : \A j \in dots : j <= i
    IN  IF last <= 1 THEN <<>> ELSE SubSeq(base, last, Len(base))

\* process.cwd()
Cwd == <<"/", "a", "p", "p">>

\* A root other than the working directory, whose name contains "api".
RootSrvApi == <<"/", "s", "r", "v", "/", "a", "p", "i">>

PublicName == <<"p", "u", "b", "l", "i", "c">>

IndexName == <<"i", "n", "d", "e", "x", ".", "h", "t", "m", "l">>

HeadClose == <<"<", "/", "h", "e", "a", "d", ">">>

\* The directories and the files (with their contents) on the disk.
DiskDirs ==
    { Cwd, Cwd \o <<"/">> \o PublicName,
      RootSrvApi, RootSrvApi \o <<"/">> \o PublicName }

DiskFiles ==
    { Cwd \o <<"/">> \o PublicName \o <<"/">> \o IndexName,
      RootSrvApi \o <<"/">> \o PublicName \o <<"/">> \o IndexName,
      Cwd \o <<"/", "4", "0", "4", ".", "h", "t", "m", "l">> }

FileContent(p) ==
    IF p = Cwd \o <<"/", "4", "0", "4", ".", "h", "t", "m", "l">>
    THEN <<"<head>">> \o HeadClose \o <<"not found page">>
    ELSE <<"<head>">> \o HeadClose \o <<"home page">> \o HeadClose

\* The path the operating system resolves a name to: a trailing slash is
\* allowed on a directory only.
OsPath[p \in Str] ==
    LET stripped[n \in Str] ==
            IF Len(n) > 1 /\ n[Len(n)] = "/" THEN SubSeq(n, 1, Len(n) - 1) ELSE n
    IN  stripped[Normalize[p]]

isDirectory(p) == OsPath[p] \in DiskDirs

existsSync(p) ==
    \/ isDirectory(p)
    \/ Normalize[p] \in DiskFiles

\* readFileSync(p) succeeds on a regular file, unless the disk faults.
CanRead(p, diskFault) == ~diskFault /\ Normalize[p] \in DiskFiles

(***************************************************************************)
(* The HTTP response object (http.ServerResponse).                         *)
(***************************************************************************)
NewResponse ==
    [status |-> 0, ctype |-> undefined, body |-> <<>>, heads |-> 0, ends |-> 0]

writeHead(res, status, ctype) ==
    [res EXCEPT !.status = status, !.ctype = ctype, !.heads = @ + 1]

write(res, chunk) == [res EXCEPT !.body = @ \o chunk]

\* response.end(): without a writeHead the implicit status 200 is sent.
end(res) ==
    [res EXCEPT !.ends = @ + 1,
                !.status = IF res.heads = 0 THEN 200 ELSE @]

(***************************************************************************)
(* MiniServer: the hot-reload texts and the static file server.            *)
(***************************************************************************)
\* `hot-reload-${Math.random().toString(36).substring(6)}.js`
HotReloadFile(token) == <<"hot-reload-">> \o token \o <<".", "j", "s">>

htmlHotReloadWorker == <<"onconnect = ... EventSource ...">>

\* A script that names the worker file without the instance's token.
htmlHotReloadScript_noToken(s) ==
    <<"<script>", "new SharedWorker(">> \o HotReloadFile(<<>>) \o <<")", "</script>">>

\* get htmlHotReloadScript(): the script block, naming this.hotRelaodfile.
htmlHotReloadScript(s) ==
    <<"<script>", "new SharedWorker(">> \o s.hotRelaodfile \o <<")", "</script>">>

contentTypes(ext) ==
    CASE ext = <<".", "h", "t", "m", "l">> -> "text/html"
      [] ext = <<".", "c", "s", "s">> -> "text/css"
      [] ext = <<".", "j", "s">> -> "text/javascript"
      [] ext = <<".", "j", "s", "o", "n">> -> "text/json"
      [] ext = <<".", "s", "v", "g">> -> "image/svg+xml"
      [] OTHER -> undefined

\* A mutant: the catch block writes the error and does not end the response.
staticFileServer_catchNoEnd(s, url, response, diskFault) ==
    LET \* the file the read is tried on: 404.html for a missing name,
        \* index.html for a directory
        targetOf[filename \in Str] ==
            IF ~existsSync(filename)
            THEN joinPath[Cwd, <<"/", "4", "0", "4", ".", "h", "t", "m", "l">>]
            ELSE IF isDirectory(filename)
            THEN filename \o <<"/">> \o IndexName
            ELSE filename
        served[target \in Str, file \in Str] ==
            IF EndsWith(target, <<".", "h", "t", "m", "l">>) /\ s.devHotReload
            THEN ReplaceFirst[file, HeadClose, htmlHotReloadScript(s) \o HeadClose]
            ELSE file
        answer[filename \in Str, missing \in BOOLEAN, target \in Str] ==
            IF Includes(filename, <<".", "w", "e", "l", "l", "-", "k", "n", "o", "w", "n">>)
            THEN [response |-> end(response), branch |-> "wellKnown"]
            ELSE IF s.devHotReload /\ ReplaceFirst[url, <<"/">>, <<>>] = s.hotRelaodfile
            THEN [response |->
                    end(write(writeHead(response, 200, "text/javascript"),
                              htmlHotReloadWorker)),
                  branch |-> "hotReload"]
            ELSE IF missing /\ Includes(filename, <<"a", "p", "i">>)
            THEN [response |->
                    end(write(writeHead(response, 400, "text/plain"),
                              <<"API call not found">>)),
                  branch |-> "apiMiss"]
            ELSE IF ~CanRead(target, diskFault)
            THEN [response |->
                    write(writeHead(response, 500, "text/plain"),
                          <<"Error: ", "\n">>),
                  branch |-> "readError"]
            ELSE [response |->
                    end(write(writeHead(response, 200, contentTypes(extname[target])),
                              served[target, FileContent(Normalize[target])])),
                  branch |-> IF missing THEN "fallback404"
                             ELSE IF isDirectory(filename) THEN "dirIndex"
                             ELSE "file"]
        from[filename \in Str] ==
            answer[filename, ~existsSync(filename), targetOf[filename]]
    IN  from[joinPath[joinPath[s.root, s.staticFolder], url]]

\* MiniServer.staticFileServer(request, response) on server s: the response
\* it leaves and the branch it took. diskFault: readFileSync throws.
staticFileServer(s, url, response, diskFault) ==
    LET \* the file the read is tried on: 404.html for a missing name,
        \* index.html for a directory
        targetOf[filename \in Str] ==
            IF ~existsSync(filename)
            THEN joinPath[Cwd, <<"/", "4", "0", "4", ".", "h", "t", "m", "l">>]
            ELSE IF isDirectory(filename)
            THEN filename \o <<"/">> \o IndexName
            ELSE filename
        served[target \in Str, file \in Str] ==
            IF EndsWith(target, <<".", "h", "t", "m", "l">>) /\ s.devHotReload
            THEN ReplaceFirst[file, HeadClose, htmlHotReloadScript(s) \o HeadClose]
            ELSE file
        answer[filename \in Str, missing \in BOOLEAN, target \in Str] ==
            IF Includes(filename, <<".", "w", "e", "l", "l", "-", "k", "n", "o", "w", "n">>)
            THEN [response |-> end(response), branch |-> "wellKnown"]
            ELSE IF s.devHotReload /\ ReplaceFirst[url, <<"/">>, <<>>] = s.hotRelaodfile
            THEN [response |->
                    end(write(writeHead(response, 200, "text/javascript"),
                              htmlHotReloadWorker)),
                  branch |-> "hotReload"]
            ELSE IF missing /\ Includes(filename, <<"a", "p", "i">>)
            THEN [response |->
                    end(write(writeHead(response, 400, "text/plain"),
                              <<"API call not found">>)),
                  branch |-> "apiMiss"]
            ELSE IF ~CanRead(target, diskFault)
            THEN [response |->
                    end(write(writeHead(response, 500, "text/plain"),
                              <<"Error: ", "\n">>)),
                  branch |-> "readError"]
            ELSE [response |->
                    end(write(writeHead(response, 200, contentTypes(extname[target])),
                              served[target, FileContent(Normalize[target])])),
                  branch |-> IF missing THEN "fallback404"
                             ELSE IF isDirectory(filename) THEN "dirIndex"
                             ELSE "file"]
        from[filename \in Str] ==
            answer[filename, ~existsSync(filename), targetOf[filename]]
    IN  from[joinPath[joinPath[s.root, s.staticFolder], url]]

(***************************************************************************)
(* The state of the program.                                               *)
(***************************************************************************)
VARIABLES
    arrays,     \* the route arrays; arrays[1] is controller.js's baseRoutes
    objs,       \* the heap of state objects; a controller's state refers to one
    ctl,        \* the ApiController instances, in order of construction
    stateFile,  \* the backing file ./server.state.temp
    pending,    \* the readFile and writeFile calls in flight
    srv,        \* the MiniServer instance
    cur,        \* the request serverMainHandler was last called with
    hist,       \* history: counters and what has been observed so far
    alive,      \* whether the process is running
    probe       \* the inputs and results of a direct call of the matcher

vars == <<arrays, objs, ctl, stateFile, pending, srv, cur, hist, alive, probe>>

NoSnap == Obj("none", 0)

NoServer ==
    [made |-> FALSE, apiController |-> 0, devHotReload |-> FALSE,
     root |-> Cwd, staticFolder |-> PublicName, hotRelaodfile |-> <<>>]

Idle ==
    [pc |-> "idle", url |-> <<>>, method |-> undefined, result |-> undefined,
     matched |-> 0, calls |-> <<>>, res |-> NewResponse, branch |-> "none",
     writes |-> 0]

NoProbe == [route |-> [url |-> <<>>, method |-> undefined],
            request |-> [url |-> <<>>, method |-> undefined],
            applied |-> FALSE, match |-> FALSE, matchNoQuery |-> FALSE,
            variables |-> {}]

(***************************************************************************)
(* controller.js: baseRoutes and the routes buildController adds.          *)
(***************************************************************************)
UrlJson2 == <<"j", "s", "o", "n", "2">>
UrlFirst == <<"/", "a", "p", "i", "/", "f", "i", "r", "s", "t">>
UrlSecondId ==
    <<"/", "a", "p", "i", "/", "s", "e", "c", "o", "n", "d", "/", ":", "i", "d">>
UrlJsonTry == <<"/", "a", "p", "i", "/", "j", "s", "o", "n", "T", "r", "y">>

DataAbc == <<"{", "\"", "a", "b", "c", "\"", ":", "1", "2", "3", "}">>

\* const baseRoutes = [ApiController.createRoute({url: 'json2', ...})]
baseRoutes == <<createRoute(UrlJson2, "GET", DataAbc, 200)>>

\* The three routes buildController adds; the handler of /api/first closes
\* over the controller c built by the same call.
RouteFirst(c) ==
    [url |-> UrlFirst, method |-> undefined,
     action |-> [kind |-> "first", owner |-> c, status |-> 200, data |-> <<>>]]

RouteSecond ==
    [url |-> UrlSecondId, method |-> undefined,
     action |-> [kind |-> "second", owner |-> 0, status |-> 200, data |-> <<>>]]

RouteJsonTry ==
    [url |-> UrlJsonTry, method |-> undefined,
     action |-> [kind |-> "jsonTry", owner |-> 0, status |-> 200, data |-> DataAbc]]

\* [...new URLSearchParams(query).entries()] in a template literal: the
\* pairs joined by commas.
ParamsText(query) ==
    [i \in 1..Len(query) |-> IF query[i] \in {"=", "&"} THEN "," ELSE query[i]]

\* route.routeAction(request, response) for each handler of the repository:
\* the response, the heap, and the count a /api/first handler reports.
routeAction(a, request, response, heap) ==
    CASE a.kind = "first" ->
            LET ref == ctl[a.owner].state
                now == PlusOne(heap[ref])
            IN  [response |->
                    end(write(writeHead(response, 200, "text/plain"),
                              <<"route ">> \o request.url \o <<"  was called ">>
                              \o CountText(now) \o <<" times">>)),
                 heap |-> [heap EXCEPT ![ref] = now],
                 reported |-> <<now>>]
      [] a.kind = "second" ->
            LET variables == getVariablesFromPath(UrlSecondId, [url |-> request.url])
                id == (CHOOSE v \in variables : v[1] = <<"i", "d">>)[2]
                parts == Split[request.url, "?"]
                query == IF Len(parts) > 1 THEN parts[2] ELSE <<>>
            IN  [response |->
                    end(write(writeHead(response, 200, "text/plain"),
                              <<"route ">> \o request.url
                              \o <<"  was called with id ">> \o id
                              \o <<" and params ">> \o ParamsText(query) \o <<" ">>)),
                 heap |-> heap,
                 reported |-> <<>>]
      [] a.kind = "jsonTry" ->
            [response |->
                end(write(writeHead(response, 200, "application/json"), DataAbc)),
             heap |-> heap,
             reported |-> <<>>]
      [] OTHER ->
            [response |->
                end(write(writeHead(response, a.status, "application/json"),
                          a.data)),
             heap |-> heap,
             reported |-> <<>>]

(***************************************************************************)
(* ApiController: construction, addRoute, use, tryToLoadState.             *)
(***************************************************************************)
\* A mutant: the last matching route instead of the first.
FindRoute_last(routes, request) ==
    LET hits == {i \in 1..Len(routes) :
                    isRouteMatch([url |-> routes[i].url,
                                  method |-> routes[i].method], request)}
    IN  IF hits = {} THEN 0 ELSE CHOOSE i \in hits : \A j \in hits : j <= i

\* this.routes.find(r => isRouteMatch({url: r.url, method: r.method}, ...)):
\* the index of the first matching route, 0 when there is none.
FindRoute(routes, request) ==
    LET hits == {i \in 1..Len(routes) :
                    isRouteMatch([url |-> routes[i].url,
                                  method |-> routes[i].method], request)}
    IN  IF hits = {} THEN 0 ELSE CHOOSE i \in hits : \A j \in hits : i <= j

\* A mutant: the state is saved only when the handler changed it.
Persists_ifChanged(c, before, after) == ctl[c].persistState /\ before # after

\* Whether use starts a write after the handler of a matched route returned
\* (before and after are the heap around the handler's call).
Persists(c, before, after) == ctl[c].persistState

\* A mutant: a request no route matches is answered and saved all the same.
use_saveOnMiss(c, request, response) ==
    LET routes == arrays[ctl[c].routes]
        i == FindRoute(routes, [url |-> request.url, method |-> request.method])
        snap == objs[ctl[c].state]
    IN  IF i = 0
        THEN [handled |-> FALSE, matched |-> 0, response |-> end(response),
              heap |-> objs,
              writes |-> IF ctl[c].persistState
                         THEN <<[data |-> JSONStringify(snap), snap |-> snap]>>
                         ELSE <<>>,
              calls |-> <<>>, reported |-> <<>>]
        ELSE LET r == routeAction(routes[i].action, request, response, objs)
                 after == r.heap[ctl[c].state]
             IN  [handled |-> TRUE, matched |-> i, response |-> r.response,
                  heap |-> r.heap,
                  writes |-> IF ctl[c].persistState
                             THEN <<[data |-> JSONStringify(after), snap |-> after]>>
                             ELSE <<>>,
                  calls |-> <<"routeAction">>
                            \o (IF ctl[c].persistState THEN <<"writeFile">>
                                ELSE <<>>),
                  reported |-> r.reported]

\* ApiController.use(request, response) on controller c: what it returns and
\* what it leaves behind (the heap, the response, the writes it started).
use(c, request, response) ==
    LET routes == arrays[ctl[c].routes]
        i == FindRoute(routes, [url |-> request.url, method |-> request.method])
    IN  IF i = 0
        THEN [handled |-> FALSE, matched |-> 0, response |-> response,
              heap |-> objs, writes |-> <<>>, calls |-> <<>>,
              reported |-> <<>>]
        ELSE LET r == routeAction(routes[i].action, request, response, objs)
                 snap == r.heap[ctl[c].state]
                 save == Persists(c, objs, r.heap)
             IN  [handled |-> TRUE, matched |-> i, response |-> r.response,
                  heap |-> r.heap,
                  writes |-> IF save
                             THEN <<[data |-> JSONStringify(snap), snap |-> snap]>>
                             ELSE <<>>,
                  calls |-> <<"routeAction">>
                            \o (IF save THEN <<"writeFile">> ELSE <<>>),
                  reported |-> r.reported]

\* The least id no call in flight has.
FreshId(ops) ==
    CHOOSE i \in 1..(Cardinality(ops) + 1) :
        /\ \A op \in ops : op.id # i
        /\ \A j \in 1..(i - 1) : \E op \in ops : op.id = j

\* The readFile call the constructor starts through tryToLoadState.
ReadOp(c, id) ==
    [id |-> id, kind |-> "read", ctl |-> c, data |-> <<>>, snap |-> NoSnap]

\* The writeFile call use starts.
WriteOp(c, id, w) ==
    [id |-> id, kind |-> "write", ctl |-> c, data |-> w.data, snap |-> w.snap]

\* The objects of the program: what construction and addRoute act on.
Program == [arrays |-> arrays, objs |-> objs, ctl |-> ctl, pending |-> pending]

\* new ApiController({routes, initialState, persistState}) in program P.
\* routes is the index of the array passed in, 0 for none (then a new empty
\* array); initialState is the object passed in, EmptyObj ({}) for none.
\* The last five fields of the instance are history: the requests it
\* handled, the reads and writes it started, the requests handled before it
\* was constructed, and the state the backing file then held from the
\* completed write of the latest request (NoSnap if there is none).
ApiControllerNew(P, routes, initialState, persistState, h) ==
    LET c == Len(P.ctl) + 1
        arr == IF routes = 0 THEN Append(P.arrays, <<>>) ELSE P.arrays
        instance ==
            [persistState |-> persistState,
             routes |-> IF routes = 0 THEN Len(arr) ELSE routes,
             state |-> Len(P.objs) + 1,
             handled |-> 0,
             reads |-> IF persistState THEN 1 ELSE 0,
             writes |-> 0,
             born |-> h.handled,
             expect |-> IF persistState /\ h.latest \in {"none", "written"}
                        THEN h.fileSnap ELSE NoSnap]
    IN  [arrays |-> arr,
         objs |-> Append(P.objs, initialState),
         ctl |-> Append(P.ctl, instance),
         pending |-> IF persistState
                     THEN P.pending \cup {ReadOp(c, FreshId(P.pending))}
                     ELSE P.pending]

\* controller.addRoute(route) on controller c of program P.
addRoute(P, c, route) ==
    [P EXCEPT !.arrays[P.ctl[c].routes] = Append(@, route)]

\* controller.js: buildController() in program P. The controller is given
\* baseRoutes itself, the module's array (arrays[1]), as its routes.
buildController(P, h) ==
    LET c == Len(P.ctl) + 1
        made == ApiControllerNew(P, 1, Obj("number", 0), TRUE, h)
    IN  addRoute(addRoute(addRoute(made, c, RouteFirst(c)), c, RouteSecond),
                 c, RouteJsonTry)

\* The routes a caller other than buildController registers.
RouteAny == createRoute(<<"/", "a", "p", "i", "/", ":", "i", "d">>, undefined,
                        undefined, 0)

RouteFirstCanned == createRoute(UrlFirst, "GET", DataAbc, 201)

TestRoutes == {RouteAny, RouteFirstCanned}

\* A later call of buildController() in the running process: a fresh
\* controller on the same backing file.
BuildController ==
    /\ alive
    /\ cur.pc # "awaiting"
    /\ Len(ctl) < MaxControllers
    /\ \E P \in {buildController(Program, hist)} :
           /\ arrays' = P.arrays
           /\ objs' = P.objs
           /\ ctl' = P.ctl
           /\ pending' = P.pending
    /\ UNCHANGED <<stateFile, srv, cur, hist, alive, probe>>

\* controller.addRoute(route), called after construction.
AddRoute(c, route) ==
    /\ alive
    /\ cur.pc # "awaiting"
    /\ c \in 1..Len(ctl)
    /\ hist.added < MaxAddRoutes
    /\ arrays' = addRoute(Program, c, route).arrays
    /\ hist' = [hist EXCEPT !.added = @ + 1]
    /\ UNCHANGED <<objs, ctl, stateFile, pending, srv, cur, alive, probe>>

\* tryToLoadState with a catch block that puts an empty object in the state.
TryToLoadState_resetOnFailure(op) ==
    /\ alive
    /\ cur.pc # "awaiting"
    /\ op \in pending
    /\ op.kind = "read"
    /\ pending' = pending \ {op}
    /\ \E parsed \in {IF stateFile.kind = "text" THEN JSONParse(stateFile.text)
                      ELSE [ok |-> FALSE, value |-> EmptyObj]} :
           /\ objs' = Append(objs, parsed.value)
           /\ ctl' = [ctl EXCEPT ![op.ctl].state = Len(objs) + 1]
           /\ hist' = [hist EXCEPT !.loadFailedAt = IF parsed.ok THEN @
                                                    ELSE hist.handled]
    /\ UNCHANGED <<arrays, stateFile, srv, cur, alive, probe>>

\* The continuation of tryToLoadState once readFile has settled: the state
\* becomes the parsed text; a rejected read or a SyntaxError is only logged.
\* The history notes how many requests had been handled when a load failed.
TryToLoadState(op) ==
    /\ alive
    /\ cur.pc # "awaiting"
    /\ op \in pending
    /\ op.kind = "read"
    /\ pending' = pending \ {op}
    /\ \E parsed \in {IF stateFile.kind = "text" THEN JSONParse(stateFile.text)
                      ELSE [ok |-> FALSE, value |-> EmptyObj]} :
           /\ IF parsed.ok
              THEN /\ objs' = Append(objs, parsed.value)
                   /\ ctl' = [ctl EXCEPT ![op.ctl].state = Len(objs) + 1]
              ELSE UNCHANGED <<objs, ctl>>
           /\ hist' = [hist EXCEPT !.loadFailedAt = IF parsed.ok THEN @
                                                    ELSE hist.handled]
    /\ UNCHANGED <<arrays, stateFile, srv, cur, alive, probe>>

\* A writeFile that serializes the state when it settles, not when called.
WriteFileResolve_lateText(op) ==
    /\ alive
    /\ cur.pc # "awaiting"
    /\ op \in pending
    /\ op.kind = "write"
    /\ pending' = pending \ {op}
    /\ stateFile' = [kind |-> "text",
                     text |-> JSONStringify(objs[ctl[op.ctl].state])]
    /\ hist' = [hist EXCEPT !.fileSnap = op.snap,
                            !.latest = IF op.id = hist.latestId THEN "written"
                                       ELSE @]
    /\ UNCHANGED <<arrays, objs, ctl, srv, cur, alive, probe>>

\* writeFile settles, fulfilled: the file holds the text given to the call.
WriteFileResolve(op) ==
    /\ alive
    /\ cur.pc # "awaiting"
    /\ op \in pending
    /\ op.kind = "write"
    /\ pending' = pending \ {op}
    /\ stateFile' = [kind |-> "text", text |-> op.data]
    /\ hist' = [hist EXCEPT !.fileSnap = op.snap,
                            !.latest = IF op.id = hist.latestId THEN "written"
                                       ELSE @]
    /\ UNCHANGED <<arrays, objs, ctl, srv, cur, alive, probe>>

\* writeFile settles, rejected: nothing handles the rejection of the
\* promise .then() returns; fatal says whether the runtime ends the process
\* on an unhandled rejection.
WriteFileReject(op, fatal) ==
    /\ alive
    /\ cur.pc # "awaiting"
    /\ op \in pending
    /\ op.kind = "write"
    /\ pending' = pending \ {op}
    /\ hist' = [hist EXCEPT !.latest = IF op.id = hist.latestId THEN "rejected"
                                       ELSE @]
    /\ alive' = ~fatal
    /\ UNCHANGED <<arrays, objs, ctl, stateFile, srv, cur, probe>>

(***************************************************************************)
(* MiniServer: construction and the request handler.                       *)
(***************************************************************************)
\* The values Math.random().toString(36).substring(6) takes in the model.
HotTokens == {<<"k", "7">>}

\* new MiniServer({root, staticFolder, apiController, devHotReload}); api is
\* 0 for no controller; root is undefined for the working directory.
MiniServerNew(api, root, devHotReload, token) ==
    [made |-> TRUE, apiController |-> api,
     devHotReload |-> devHotReload,
     root |-> IF root = undefined THEN Cwd ELSE root,
     staticFolder |-> PublicName,
     hotRelaodfile |-> HotReloadFile(token)]

\* A mutant: the static file server is called whatever the router returned.
FallsBack_always(result) == TRUE

\* Whether serverMainHandler goes on to the static file server: not when
\* (result && result.handled).
FallsBack(result) == result # "handled"

\* The first part of serverMainHandler(request, response), up to its await:
\* apiCallsServer and, through it, the controller's use.
ServerMainHandler(url, method) ==
    /\ alive
    /\ srv.made
    /\ cur.pc # "awaiting"
    /\ \E c \in {srv.apiController} :
           IF c = 0
           THEN /\ cur' = [Idle EXCEPT !.pc = "awaiting", !.url = url,
                                       !.method = method,
                                       !.calls = <<"apiCallsServer">>]
                /\ UNCHANGED <<objs, ctl, pending, hist>>
           ELSE \E u \in {use(c, [url |-> url, method |-> method], NewResponse)},
                   id \in {FreshId(pending)} :
                  \E n \in {Len(u.writes)} :
                    /\ u.handled => hist.handled < MaxHandled
                    /\ cur' = [pc |-> "awaiting", url |-> url, method |-> method,
                               result |-> IF u.handled THEN "handled"
                                          ELSE "unhandled",
                               matched |-> u.matched,
                               calls |-> <<"apiCallsServer", "use">> \o u.calls,
                               res |-> u.response, branch |-> "none",
                               writes |-> n]
                    /\ objs' = u.heap
                    /\ pending' = pending \cup
                            {WriteOp(c, id, u.writes[k]) : k \in 1..n}
                    /\ ctl' = [ctl EXCEPT
                                ![c].handled = IF u.handled THEN @ + 1 ELSE @,
                                ![c].writes = @ + n]
                    /\ hist' = [hist EXCEPT
                            !.handled = IF u.handled THEN @ + 1 ELSE @,
                            !.prev = IF Len(u.reported) > 0 THEN hist.last ELSE @,
                            !.last = IF Len(u.reported) > 0 THEN u.reported[1]
                                     ELSE @,
                            !.latest = IF n > 0 THEN "pending" ELSE @,
                            !.latestId = IF n > 0 THEN id ELSE @]
    /\ UNCHANGED <<arrays, stateFile, srv, alive, probe>>

\* The rest of serverMainHandler, after the await: return if the router
\* handled the request, else staticFileServer.
ServerMainHandlerResume(diskFault) ==
    /\ alive
    /\ cur.pc = "awaiting"
    /\ IF FallsBack(cur.result)
       THEN \E st \in {staticFileServer(srv, cur.url, cur.res, diskFault)} :
                cur' = [cur EXCEPT !.pc = "done", !.res = st.response,
                                   !.branch = st.branch,
                                   !.calls = Append(@, "staticFileServer")]
       ELSE /\ ~diskFault
            /\ cur' = [cur EXCEPT !.pc = "done"]
    /\ UNCHANGED <<arrays, objs, ctl, stateFile, pending, srv, hist, alive, probe>>

\* The requests the model sends: the URLs of the repository's routes, with
\* and without a query string, one URL for each way of the static file
\* server, and a well-known-probe URL under /api.
UrlFirstQuery == UrlFirst \o <<"?", "x", "=", "1">>
UrlSecond42 ==
    <<"/", "a", "p", "i", "/", "s", "e", "c", "o", "n", "d", "/", "4", "2",
      "?", "x", "=", "1">>
UrlMissing == <<"/", "a", "p", "i", "/", "m", "i", "s", "s", "i", "n", "g">>
UrlNope == <<"/", "n", "o", "p", "e", ".", "h", "t", "m", "l">>
WellKnown == <<".", "w", "e", "l", "l", "-", "k", "n", "o", "w", "n">>
UrlWellKnown == <<"/">> \o WellKnown \o <<"/", "x">>
UrlWellKnownApi == <<"/", "a", "p", "i", "/">> \o WellKnown

Requests ==
    { [url |-> u, method |-> "GET"] :
        u \in { UrlFirst, UrlFirstQuery, UrlSecond42, UrlMissing, <<"/">>,
                <<"/">> \o IndexName, UrlNope, UrlWellKnown, UrlWellKnownApi,
                <<"/">> \o srv.hotRelaodfile } }
    \cup { [url |-> UrlFirst, method |-> "POST"] }

\* The contents the backing file may have when the process starts: none, a
\* text that is no JSON, or the state a previous run saved.
InitialSnaps == {NoSnap, Obj("garbage", 0), Obj("number", SavedCount)}

InitialFile(s) ==
    CASE s = NoSnap -> [kind |-> "absent", text |-> <<>>]
      [] s.tag = "garbage" -> [kind |-> "text", text |-> <<"{">>]
      [] OTHER -> [kind |-> "text", text |-> JSONStringify(s)]

InitialHist(s) ==
    [handled |-> 0, added |-> 0, prev |-> NoSnap, last |-> NoSnap,
     fileSnap |-> IF s.tag = "number" THEN s ELSE NoSnap,
     latest |-> "none", latestId |-> 0, loadFailedAt |-> -1]

EmptyProgram ==
    [arrays |-> <<baseRoutes>>, objs |-> <<>>, ctl |-> <<>>, pending |-> {}]

\* The program as started: a server over the controller buildController()
\* returns (index.js), over a controller constructed with a route array and
\* no initial state, or over no controller.
StartedWith(P, api, hot, s) ==
    /\ arrays = P.arrays
    /\ objs = P.objs
    /\ ctl = P.ctl
    /\ pending = P.pending
    /\ stateFile = InitialFile(s)
    /\ hist = InitialHist(s)
    /\ srv = MiniServerNew(api, undefined, hot, CHOOSE t \in HotTokens : TRUE)
    /\ cur = Idle
    /\ alive = TRUE
    /\ probe = NoProbe

(***************************************************************************)
(* Dispatch: the server over each kind of controller, the startup load,    *)
(* addRoute, and requests to every route and every way of the static file  *)
(* server. The writes use starts stay in flight.                           *)
(***************************************************************************)
Init ==
    \E s \in {NoSnap, Obj("number", SavedCount)} :
        \/ StartedWith(buildController(EmptyProgram, InitialHist(s)), 1, TRUE, s)
        \/ \E p \in BOOLEAN :
            StartedWith(addRoute(ApiControllerNew(EmptyProgram, 0, EmptyObj, p,
                                                  InitialHist(s)),
                                 1, RouteAny), 1, TRUE, s)
        \/ \E hot \in BOOLEAN : StartedWith(EmptyProgram, 0, hot, s)

Resume == \E diskFault \in BOOLEAN : ServerMainHandlerResume(diskFault)

Next ==
    \/ \E c \in 1..Len(ctl), r \in TestRoutes : AddRoute(c, r)
    \/ \E op \in pending : TryToLoadState(op)
    \/ \E r \in Requests : ServerMainHandler(r.url, r.method)
    \/ Resume

Spec == Init /\ [][Next]_vars

(***************************************************************************)
(* Serving: the same servers with their routes as constructed, answering   *)
(* requests. The continuation of an await runs: the microtask queue is     *)
(* drained before the event loop takes anything else.                      *)
(***************************************************************************)
ServeNext ==
    \/ \E r \in Requests : ServerMainHandler(r.url, r.method)
    \/ Resume

ServeSpec == Init /\ [][ServeNext]_vars /\ WF_vars(Resume)

(***************************************************************************)
(* Roots: a server without a controller, constructed with no root (the     *)
(* working directory) or with a root elsewhere on the disk, answering      *)
(* requests from its static folder.                                        *)
(***************************************************************************)
RootInit ==
    /\ arrays = EmptyProgram.arrays
    /\ objs = EmptyProgram.objs
    /\ ctl = EmptyProgram.ctl
    /\ pending = EmptyProgram.pending
    /\ \E s \in {NoSnap, Obj("number", SavedCount)} :
           /\ stateFile = InitialFile(s)
           /\ hist = InitialHist(s)
    /\ \E root \in {undefined, RootSrvApi}, hot \in BOOLEAN :
           srv = MiniServerNew(0, root, hot, CHOOSE t \in HotTokens : TRUE)
    /\ cur = Idle
    /\ alive = TRUE
    /\ probe = NoProbe

RootNext ==
    \/ \E r \in Requests : ServerMainHandler(r.url, r.method)
    \/ Resume

RootSpec == RootInit /\ [][RootNext]_vars

(***************************************************************************)
(* Persistence: the program index.js starts, GET /api/first requests, the  *)
(* reads and writes settling in any order, and further controllers built   *)
(* on the same backing file.                                               *)
(***************************************************************************)
PersistInit ==
    \E s \in InitialSnaps :
        StartedWith(buildController(EmptyProgram, InitialHist(s)), 1, TRUE, s)

PersistRequests ==
    { [url |-> UrlFirst, method |-> "GET"],
      [url |-> UrlFirstQuery, method |-> "GET"] }

\* A readFile call settles and tryToLoadState continues.
Load == \E op \in pending : TryToLoadState(op)

PersistNext ==
    \/ BuildController
    \/ Load
    \/ \E op \in pending : WriteFileResolve(op)
    \/ \E op \in pending, fatal \in BOOLEAN : WriteFileReject(op, fatal)
    \/ \E r \in PersistRequests : ServerMainHandler(r.url, r.method)
    \/ Resume

\* The continuation of an await runs; a readFile call settles and its
\* callback is run by the event loop, which requests arriving meanwhile
\* delay (no callback runs inside a handler's await) but never starve.
PersistSpec ==
    PersistInit /\ [][PersistNext]_vars /\ WF_vars(Resume) /\ SF_vars(Load)

(***************************************************************************)
(* Startup load: the program index.js starts on a backing file that is     *)
(* missing, holds no JSON, or holds a saved state; the read settles before, *)
(* between or after the requests. The writes use starts stay in flight.    *)
(***************************************************************************)
LoadNext ==
    \/ Load
    \/ \E r \in Requests : ServerMainHandler(r.url, r.method)
    \/ Resume

LoadSpec == PersistInit /\ [][LoadNext]_vars

(***************************************************************************)
(* Saving: the program index.js starts, GET /api/first requests, the       *)
(* startup read and the writes settling in any order.                      *)
(***************************************************************************)
SaveNext ==
    \/ Load
    \/ \E op \in pending : WriteFileResolve(op)
    \/ \E r \in PersistRequests : ServerMainHandler(r.url, r.method)
    \/ Resume

SaveSpec == PersistInit /\ [][SaveNext]_vars

(***************************************************************************)
(* Matching: ApiController.isRouteMatch called directly, on every pattern  *)
(* and request URL of up to MaxSegs segments, with and without a query     *)
(* string, and every pairing of methods.                                   *)
(***************************************************************************)
\* The URLs of one to MaxSegs segments drawn from segs, each segment after
\* a "/"; lead says whether the first "/" is there.
Paths(segs, lead) ==
    { (IF lead THEN <<"/">> ELSE <<>>) \o JoinWith[f, <<"/">>] :
        f \in UNION { [1..n -> segs] : n \in 1..MaxSegs } }

PatternUrls ==
    Paths({<<"a">>, <<"b">>, <<":", "x">>}, TRUE)
    \cup Paths({<<"a">>, <<":", "x">>}, FALSE)

Queries == { <<>>, <<"?", "q">>, <<"?", "q", "/", "r">> }

RequestUrls ==
    { path \o query : path \in Paths({<<"a">>, <<"b">>, <<>>}, TRUE),
                      query \in Queries }

\* The request URL up to its query string.
WithoutQuery(url) == Split[url, "?"][1]

MatchInit ==
    /\ arrays = EmptyProgram.arrays
    /\ objs = EmptyProgram.objs
    /\ ctl = EmptyProgram.ctl
    /\ pending = EmptyProgram.pending
    /\ stateFile = InitialFile(NoSnap)
    /\ hist = InitialHist(NoSnap)
    /\ srv = NoServer
    /\ cur = Idle
    /\ alive = TRUE
    /\ \E pu \in PatternUrls, pm \in {undefined, "GET", "get", "POST"},
          ru \in RequestUrls, rm \in {undefined, "GET", "POST"} :
           probe = [NoProbe EXCEPT !.route = [url |-> pu, method |-> pm],
                                   !.request = [url |-> ru, method |-> rm]]

\* ApiController.isRouteMatch(route, request), the same call with the query
\* string taken off the request URL, and
\* ApiController.getVariablesFromPath(route.url, request).
MatchProbe ==
    /\ ~probe.applied
    /\ probe' = [probe EXCEPT
                    !.applied = TRUE,
                    !.match = isRouteMatch(probe.route, probe.request),
                    !.matchNoQuery =
                        isRouteMatch(probe.route,
                                     [probe.request EXCEPT
                                        !.url = WithoutQuery(@)]),
                    !.variables =
                        getVariablesFromPath(probe.route.url, probe.request)]
    /\ UNCHANGED <<arrays, objs, ctl, stateFile, pending, srv, cur, hist, alive>>

MatchNext == MatchProbe

MatchSpec == MatchInit /\ [][MatchNext]_vars

(***************************************************************************)
(* Properties.                                                             *)
(***************************************************************************)
\* The indices of the routes of an array that match a request.
Hits(routes, request) ==
    {i \in 1..Len(routes) :
        isRouteMatch([url |-> routes[i].url, method |-> routes[i].method],
                     request)}

\* How often a call occurs in the calls made for the current request.
Calls(name) == Cardinality({i \in 1..Len(cur.calls) : cur.calls[i] = name})

CurRequest == [url |-> cur.url, method |-> cur.method]

\* C1: use invokes the handler of the first route, in insertion order, that
\* matches the request: the route invoked is the matching route of least
\* index in the controller's array (constructor routes, then addRoute calls
\* in call order), exactly one handler runs, and the response carries the
\* status and content type that very route's handler writes.
C1_FirstMatchWins ==
    (cur.pc # "idle" /\ srv.apiController # 0 /\ cur.result = "handled") =>
        LET routes == arrays[ctl[srv.apiController].routes]
            hits == Hits(routes, CurRequest)
            own == routeAction(routes[cur.matched].action, CurRequest,
                               NewResponse, objs).response
        IN  /\ cur.matched \in hits
            /\ \A j \in hits : cur.matched <= j
            /\ Calls("routeAction") = 1
            /\ cur.res.status = own.status
            /\ cur.res.ctype = own.ctype

\* A request two registered routes match has been handled.
C1_TwoRoutesMatch ==
    /\ cur.pc = "done"
    /\ srv.apiController # 0
    /\ cur.result = "handled"
    /\ Cardinality(Hits(arrays[ctl[srv.apiController].routes], CurRequest)) >= 2

\* C2: when no registered route matches the request, use returns
\* handled=false and changes nothing: no handler runs, the heap, the
\* controllers, the route arrays and the backing file are as before, no
\* read or write is started, and nothing is written to the response.
C2_NoMatchNoEffect ==
    [][ ( /\ cur'.pc = "awaiting"
          /\ srv.apiController # 0
          /\ Hits(arrays[ctl[srv.apiController].routes],
                  [url |-> cur'.url, method |-> cur'.method]) = {} )
        => ( /\ cur'.result = "unhandled"
             /\ cur'.matched = 0
             /\ cur'.calls = <<"apiCallsServer", "use">>
             /\ cur'.res = NewResponse
             /\ cur'.writes = 0
             /\ objs' = objs
             /\ ctl' = ctl
             /\ arrays' = arrays
             /\ pending' = pending
             /\ stateFile' = stateFile ) ]_vars

\* use has returned handled=false on a persisting controller with routes.
C2_UnhandledOnPersisting ==
    /\ cur.pc = "awaiting"
    /\ srv.apiController # 0
    /\ cur.result = "unhandled"
    /\ ctl[srv.apiController].persistState
    /\ Len(arrays[ctl[srv.apiController].routes]) > 1

\* C3: serverMainHandler consults the router first and calls the static
\* file server if and only if the router did not report handled=true; the
\* response of a finished request was written by exactly one of the two:
\* one route handler and no static call, or one static call and no handler,
\* and it was ended once.
C3_StaticIffUnhandled ==
    /\ cur.pc # "idle" => cur.calls[1] = "apiCallsServer"
    /\ cur.pc = "awaiting" => Calls("staticFileServer") = 0
    /\ cur.pc = "done" =>
        /\ cur.result = "handled" =>
            /\ Calls("staticFileServer") = 0
            /\ Calls("routeAction") = 1
            /\ cur.branch = "none"
        /\ cur.result # "handled" =>
            /\ Calls("staticFileServer") = 1
            /\ Calls("routeAction") = 0
            /\ cur.calls[Len(cur.calls)] = "staticFileServer"
        /\ cur.res.ends = 1
        /\ cur.res.heads <= 1

\* A request a route handled is finished.
C3_HandledDone ==
    /\ cur.pc = "done"
    /\ cur.result = "handled"
    /\ cur.res.ends = 1

StaticBranches ==
    {"wellKnown", "hotReload", "apiMiss", "fallback404", "dirIndex", "file",
     "readError"}

\* C4: every request the router does not handle eventually has a response
\* that the static file server ended exactly once, on each of its branches
\* (a failing read included).
C4_UnhandledIsAnswered ==
    /\ [](cur.pc = "done" /\ cur.result # "handled" =>
            /\ cur.branch \in StaticBranches
            /\ cur.res.ends = 1)
    /\ (cur.pc = "awaiting" /\ cur.result # "handled")
          ~> ( /\ cur.pc = "done"
               /\ cur.result # "handled"
               /\ cur.calls[Len(cur.calls)] = "staticFileServer"
               /\ cur.res.ends = 1 )

\* A request no route handled was answered from the catch block.
C4_ReadErrorAnswered ==
    /\ cur.pc = "done"
    /\ cur.result # "handled"
    /\ cur.branch = "readError"
    /\ cur.res.status = 500
    /\ cur.res.ends = 1

\* C5: a persisting controller has started exactly one write per request a
\* route handled (and its one startup read), whether or not the handler
\* changed the state; the write is started after the handler returned and
\* holds the state the handler left. A controller without persistence has
\* started no read and no write.
C5_OneWritePerHandled ==
    /\ \A c \in 1..Len(ctl) :
        /\ ctl[c].persistState =>
            /\ ctl[c].reads = 1
            /\ ctl[c].writes = ctl[c].handled
        /\ ~ctl[c].persistState =>
            /\ ctl[c].reads = 0
            /\ ctl[c].writes = 0
            /\ \A op \in pending : op.ctl # c
    /\ (cur.pc = "awaiting" /\ srv.apiController # 0) =>
        LET c == srv.apiController
        IN  /\ cur.result = "unhandled" => cur.writes = 0
            /\ (cur.result = "handled" /\ ~ctl[c].persistState) => cur.writes = 0
            /\ (cur.result = "handled" /\ ctl[c].persistState) =>
                /\ cur.writes = 1
                /\ cur.calls = <<"apiCallsServer", "use", "routeAction", "writeFile">>
                /\ \E op \in pending :
                    /\ op.id = hist.latestId
                    /\ op.kind = "write"
                    /\ op.ctl = c
                    /\ op.snap = objs[ctl[c].state]
                    /\ op.data = JSONStringify(op.snap)

\* A persisting controller handled a request whose handler left the state
\* as it was, and a controller without persistence handled one.
C5_SavedUnchanged ==
    /\ cur.pc = "awaiting"
    /\ srv.apiController # 0
    /\ cur.result = "handled"
    /\ ctl[srv.apiController].persistState
    /\ arrays[ctl[srv.apiController].routes][cur.matched].action.kind # "first"
    /\ cur.writes = 1

\* No writeFile call is in flight.
WritesDone == \A op \in pending : op.kind # "write"

\* C6: after sequential GET /api/first requests on the controller
\* buildController built, once the write of the latest request has completed
\* and no started write is left in flight, the backing file holds the count
\* the latest response reported.
C6_FileHoldsLatestCount ==
    (hist.last # NoSnap /\ hist.latest = "written" /\ WritesDone) =>
        /\ stateFile.kind = "text"
        /\ JSONParse(stateFile.text) = [ok |-> TRUE, value |-> hist.last]

\* C7: of two consecutive GET /api/first responses of the controller
\* buildController built, the later reports a count one greater than the
\* earlier, however the requests interleave with the startup load and with
\* the writes.
C7_CountsGrowByOne ==
    (hist.prev # NoSnap /\ hist.last # NoSnap) =>
        /\ hist.prev.tag = "number"
        /\ hist.last.tag = "number"
        /\ hist.last.count = hist.prev.count + 1

\* Controller c was constructed with persistence on a backing file that
\* held state S from a completed write, its read is in flight and no request
\* has been handled since.
FreshOn(c) ==
    /\ c <= Len(ctl)
    /\ ctl[c].persistState
    /\ ctl[c].expect # NoSnap
    /\ \E op \in pending : op.kind = "read" /\ op.ctl = c
    /\ hist.handled = ctl[c].born

\* C8: a fresh persisting controller, constructed on a backing file a
\* completed write left state S in, eventually has state S, unless a request
\* is handled meanwhile (or the process ends).
C8_ReloadRoundTrip ==
    \A c \in 1..MaxControllers :
        FreshOn(c) ~> ( \/ ~alive
                        \/ c <= Len(ctl) /\ hist.handled > ctl[c].born
                        \/ c <= Len(ctl) /\ objs[ctl[c].state] = ctl[c].expect )

\* C9: isRouteMatch gives the same result for a request URL with a query
\* string as for the URL up to the query string.
C9_QueryExcluded ==
    probe.applied => probe.match = probe.matchNoQuery

\* The specification's precondition on a pattern and a request: the same
\* number of segments (the query string excluded), and every segment of the
\* pattern that is no variable equal to the request's segment.
LiteralsAgree(route, request) ==
    LET pathParts == Split[route.url, "/"]
        requestParts == Split[WithoutQuery(request.url), "/"]
    IN  /\ Len(pathParts) = Len(requestParts)
        /\ \A i \in 1..Len(pathParts) :
            \/ StartsWith(pathParts[i], <<":">>)
            \/ pathParts[i] = requestParts[i]

MethodsAgree(route, request) ==
    \/ route.method = undefined
    \/ request.method = undefined
    \/ ToUpperCase(route.method) = ToUpperCase(request.method)

\* C10: a pattern and a request with equal segment counts whose literal
\* segments agree (and whose methods do not differ) match, whatever the
\* segments at the variable positions are.
C10_LiteralsDecide ==
    ( /\ probe.applied
      /\ LiteralsAgree(probe.route, probe.request)
      /\ MethodsAgree(probe.route, probe.request) )
        => probe.match

\* C11: when the route and the request both carry a method, the route matches
\* only if the two are equal ignoring letter case: methods that differ beyond
\* case (GET against POST on the identical path) never match, and a route
\* whose method equals the request's up to case matches exactly when the same
\* route without a method filter does (the case difference prevents nothing).
C11_MethodsCompared ==
    (/\ probe.applied
     /\ probe.route.method # undefined
     /\ probe.request.method # undefined)
    => /\ (ToUpperCase(probe.route.method) # ToUpperCase(probe.request.method))
            => ~probe.match
       /\ (ToUpperCase(probe.route.method) = ToUpperCase(probe.request.method))
            => (probe.match <=>
                  isRouteMatch([probe.route EXCEPT !.method = undefined],
                               probe.request))

\* C11 witness: a route registered as "get" has matched a GET request.
C11_CaseOnlyDifference ==
    /\ probe.applied
    /\ probe.route.method = "get"
    /\ probe.request.method = "GET"
    /\ probe.match

\* C12: the method filter defaults to GET: a route registered without a
\* method (through addRoute or the constructor's route array, as /api/first
\* is) handles GET requests only, never a POST, PUT, PATCH or DELETE.
C12_NoMethodMeansGet ==
    (/\ cur.pc # "idle"
     /\ srv.apiController # 0
     /\ cur.result = "handled"
     /\ arrays[ctl[srv.apiController].routes][cur.matched].method = undefined)
    => cur.method = "GET"

\* C13: a colon-prefixed pattern segment matches any single non-empty request
\* segment and only such a segment: on a request without a query string,
\* a pattern matches exactly when the segment counts are equal, the methods
\* do not differ, every literal segment equals the request's and every
\* request segment at a variable position is non-empty ('/api/second/' is
\* not matched by '/api/second/:id').
C13_VariableNeedsSegment ==
    (probe.applied /\ ~Includes(probe.request.url, <<"?">>)) =>
        LET pathParts == Split[probe.route.url, "/"]
            requestParts == Split[probe.request.url, "/"]
        IN  probe.match <=>
                /\ Len(pathParts) = Len(requestParts)
                /\ MethodsAgree(probe.route, probe.request)
                /\ \A i \in 1..Len(pathParts) :
                      IF StartsWith(pathParts[i], <<":">>)
                      THEN requestParts[i] # <<>>
                      ELSE pathParts[i] = requestParts[i]

\* The positions of the colon-prefixed segments of a pattern.
VarPositions(url) ==
    {i \in 1..Len(Split[url, "/"]) : StartsWith(Split[url, "/"][i], <<":">>)}

\* C14: getVariablesFromPath returns a mapping whose keys are exactly the
\* names of the pattern's colon-prefixed segments, each bound to the request
\* segment at the same position once the query string is removed, and to the
\* empty string when the request has no segment there (a name the pattern
\* repeats is bound at its last position); '/api/second/:id' and
\* '/api/second/42?x=1' give {id: "42"}.
C14_VariablesFromPath ==
    /\ getVariablesFromPath(UrlSecondId,
                            [url |-> UrlSecond42, method |-> "GET"])
         = {<< <<"i", "d">>, <<"4", "2">> >>}
    /\ probe.applied =>
        LET pathParts == Split[probe.route.url, "/"]
            requestParts == Split[WithoutQuery(probe.request.url), "/"]
            name(i) == SubSeq(pathParts[i], 2, Len(pathParts[i]))
            last(n) == CHOOSE i \in VarPositions(probe.route.url) :
                          /\ name(i) = n
                          /\ \A j \in VarPositions(probe.route.url) :
                                name(j) = n => j <= i
        IN  /\ {kv[1] : kv \in probe.variables}
                 = {name(i) : i \in VarPositions(probe.route.url)}
            /\ \A kv \in probe.variables :
                  kv[2] = IF last(kv[1]) <= Len(requestParts)
                          THEN requestParts[last(kv[1])]
                          ELSE <<>>
            /\ \A kv \in probe.variables, lm \in probe.variables :
                  kv[1] = lm[1] => kv = lm

\* C14 witness: the variables of a pattern have been taken from a request
\* that carries a query string, one of them bound to a non-empty segment.
C14_VariableBesideQuery ==
    /\ probe.applied
    /\ Includes(probe.request.url, <<"?">>)
    /\ \E kv \in probe.variables : kv[2] # <<>>

\* C15: a well-known-probe request is always answered with status 200 (the
\* status of a response ended with no head written) and an empty body,
\* bypassing routing and static resolution: no route handler is invoked,
\* even when a registered route matches the path, no persistence write is
\* started, and no file is read (the static file server ends the response
\* on its well-known branch).
C15_WellKnownBypasses ==
    (cur.pc = "done" /\ Includes(cur.url, WellKnown)) =>
        /\ Calls("routeAction") = 0
        /\ cur.writes = 0
        /\ cur.branch = "wellKnown"
        /\ cur.res.heads = 0 \/ cur.res.status = 200
        /\ cur.res.body = <<>>
        /\ cur.res.ends = 1

\* The file name the static file server resolves the current request to.
CurFilename == joinPath[joinPath[srv.root, srv.staticFolder], cur.url]

NotFoundPage == Cwd \o <<"/", "4", "0", "4", ".", "h", "t", "m", "l">>

\* C16: for a request no route handled whose file does not exist (and that
\* is neither a well-known probe nor the hot-reload worker), the requested
\* path decides the answer, whatever the configured root is: a path
\* containing "api" gets 400 with the text "API call not found", any other
\* path gets the content of 404.html with status 200 (unless reading
\* 404.html fails).
C16_MissingFileAnswer ==
    (/\ cur.pc = "done"
     /\ cur.result # "handled"
     /\ ~existsSync(CurFilename)
     /\ cur.branch \notin {"wellKnown", "hotReload", "readError"})
    => IF Includes(cur.url, <<"a", "p", "i">>)
       THEN /\ cur.res.status = 400
            /\ cur.res.body = <<"API call not found">>
       ELSE /\ cur.res.status = 200
            /\ ~srv.devHotReload => cur.res.body = FileContent(NotFoundPage)

\* The file the static file server reads for the current request: 404.html
\* for a missing name, index.html for a directory.
CurTarget ==
    CASE cur.branch = "fallback404" -> NotFoundPage
      [] cur.branch = "dirIndex" -> CurFilename \o <<"/">> \o IndexName
      [] OTHER -> CurFilename

\* The text with the block put in immediately before the first occurrence of
\* mark (the text itself when mark does not occur).
InsertedBeforeFirst(text, mark, block) ==
    LET at == {i \in 1..(Len(text) - Len(mark) + 1) :
                  SubSeq(text, i, i + Len(mark) - 1) = mark}
        first == CHOOSE i \in at : \A j \in at : i <= j
    IN  IF at = {} THEN text
        ELSE SubSeq(text, 1, first - 1) \o block \o SubSeq(text, first, Len(text))

\* C17: with hot reload enabled, every served file whose final name ends in
\* .html has the script block inserted immediately before the first </head>,
\* and the name that script references is the name at which the same
\* instance serves the worker script (the name never changes during the
\* instance's life); with hot reload disabled the file is served unmodified
\* and a request for the worker's name is not answered with a script.
C17_HotReloadInjection ==
    /\ [](( /\ cur.pc = "done"
            /\ cur.branch \in {"file", "dirIndex", "fallback404"}
            /\ EndsWith(CurTarget, <<".", "h", "t", "m", "l">>) )
          => cur.res.body =
                IF srv.devHotReload
                THEN InsertedBeforeFirst(
                        FileContent(Normalize[CurTarget]), HeadClose,
                        <<"<script>", "new SharedWorker(">>
                            \o srv.hotRelaodfile \o <<")", "</script>">>)
                ELSE FileContent(Normalize[CurTarget]))
    /\ [](( /\ cur.pc = "done"
            /\ cur.result # "handled"
            /\ cur.url = <<"/">> \o srv.hotRelaodfile )
          => IF srv.devHotReload
             THEN /\ cur.branch = "hotReload"
                  /\ cur.res.status = 200
                  /\ cur.res.ctype = "text/javascript"
                  /\ cur.res.body = htmlHotReloadWorker
             ELSE /\ cur.branch # "hotReload"
                  /\ cur.res.ctype # "text/javascript"
                  /\ cur.res.body # htmlHotReloadWorker)
    /\ [][srv.made => srv'.hotRelaodfile = srv.hotRelaodfile]_vars

\* C17 witness: with hot reload enabled, a page holding two </head> has been
\* served with the script in it.
C17_ScriptInjected ==
    /\ cur.pc = "done"
    /\ srv.devHotReload
    /\ cur.branch \in {"file", "dirIndex"}
    /\ Cardinality({i \in 1..(Len(FileContent(Normalize[CurTarget]))
                                - Len(HeadClose) + 1) :
                      SubSeq(FileContent(Normalize[CurTarget]), i,
                             i + Len(HeadClose) - 1) = HeadClose}) = 2
    /\ cur.res.body # FileContent(Normalize[CurTarget])

\* A startup read settles in this step on a backing file that is missing or
\* holds no JSON.
FailedLoadStep ==
    /\ \E op \in pending : op.kind = "read" /\ op \notin pending'
    /\ \/ stateFile.kind # "text"
       \/ ~JSONParse(stateFile.text).ok

\* C18: a startup load that fails (file missing, unreadable, no valid JSON)
\* leaves the controller's state the object the constructor put there, with
\* every change the handlers made to it, whether requests were handled
\* before the load completed or not, and the server goes on handling
\* requests: the process lives and the request in hand is untouched.
C18_FailedLoadKeepsState ==
    [][FailedLoadStep => /\ ctl' = ctl
                         /\ objs' = objs
                         /\ arrays' = arrays
                         /\ cur' = cur
                         /\ alive']_vars

\* C18 witness: a load failed after one request had been handled, and the
\* next request was handled on the same state, counting on from it.
C18_HandledAroundFailedLoad ==
    /\ hist.loadFailedAt = 1
    /\ hist.handled = 2
    /\ cur.pc = "done"
    /\ cur.result = "handled"
    /\ objs[ctl[1].state] = Obj("number", 2)

\* C19: the controller state is one single mapping shared by reference for
\* the lifetime of the process: the object controller.state refers to after
\* construction is the same object in every later state (so a change made
\* through a reference taken at construction always shows in
\* controller.state).
C19_StateObjectNeverReplaced ==
    [][\A c \in 1..Len(ctl) : ctl'[c].state = ctl[c].state]_vars

\* C20: a failing or never-completing state save is not observed by any
\* caller: the request that started the save is answered in full whether its
\* write is in flight, completed or rejected (use returned handled=true
\* without waiting), and every later request is still dispatched and
\* answered, which needs the process to be running.
C20_SaveFailureUnobserved ==
    /\ alive
    /\ (cur.pc = "done" /\ cur.result = "handled") => cur.res.ends = 1

\* The writeFile calls in flight.
Writes(ops) == {op \in ops : op.kind = "write"}

\* C21: the content of each persistence write is the state as it is when the
\* handler's synchronous call returns: the text is fixed when use starts the
\* write, it does not change while the write is in flight whatever later
\* requests or the startup load do to the state, and the file takes exactly
\* that text when the write completes; the file changes in no other way, so
\* a later mutation reaches it only through a later request's write.
C21_WriteHoldsStateAtCall ==
    [][ /\ \A op \in Writes(pending') \ Writes(pending) :
              op.data = JSONStringify(objs'[ctl'[op.ctl].state])
        /\ \A op \in Writes(pending) :
              \/ op \in pending'
              \/ \A later \in pending' : later.id # op.id
        /\ \A op \in Writes(pending) \ Writes(pending') :
              stateFile' = [kind |-> "text", text |-> op.data]
        /\ (stateFile' # stateFile)
              => Writes(pending) \ Writes(pending') # {} ]_vars

\* C21 witness: the write of the first request has completed after a second
\* request changed the state: the file holds count 1, the state holds
\* count 2, and the second request's write is in flight.
C21_EarlierWriteLandsLater ==
    /\ stateFile = [kind |-> "text", text |-> JSONStringify(Obj("number", 1))]
    /\ objs[ctl[1].state] = Obj("number", 2)
    /\ \E op \in Writes(pending) : op.data = JSONStringify(Obj("number", 2))

\* C22: controllers returned by separate calls of buildController are
\* independent: a call that builds a further controller (and adds its
\* routes) changes neither the route list of any controller built before
\* nor the module's baseRoutes array (arrays[1]), and a request the server's
\* controller handles invokes a handler of that controller only, which
\* changes no other controller's state.
C22_ControllersIndependent ==
    [][ /\ (Len(ctl') > Len(ctl))
            => /\ arrays'[1] = arrays[1]
               /\ \A c \in 1..Len(ctl) :
                     arrays'[ctl'[c].routes] = arrays[ctl[c].routes]
        /\ (cur'.pc = "awaiting" /\ cur'.result = "handled")
            => /\ arrays[ctl[srv.apiController].routes][cur'.matched].action.owner
                     \in {0, srv.apiController}
               /\ \A c \in 1..Len(ctl) :
                     c # srv.apiController
                        => objs'[ctl'[c].state] = objs[ctl[c].state] ]_vars

\* Request URLs that begin with "/": those the model sends, and for each
\* route of buildController its own URL with a "/" put before it, with a
\* "/" before and after it, and as it is when it begins with one.
ReachUrls ==
    {r.url : r \in Requests}
    \cup {<<"/">> \o UrlJson2, <<"/">> \o UrlJson2 \o <<"/">>,
          <<"/", "/">> \o UrlJson2, <<"/">>, UrlFirst, UrlSecondId, UrlJsonTry}

\* C23: every route buildController registers, the canned 'json2' route
\* included, is reachable: for each of them there is a GET request whose URL
\* begins with "/" for which use invokes that route's handler.
C23_EveryRouteReachable ==
    \A c \in 1..Len(ctl) :
        (ctl[c].routes = 1) =>
            \A i \in 1..(Len(baseRoutes) + 3) :
                \E u \in ReachUrls :
                    /\ u[1] = "/"
                    /\ FindRoute(arrays[1], [url |-> u, method |-> "GET"]) = i

====
